---- MODULE Spec2Model ----
(***************************************************************************)
(* A model of synapse: the likes sync (src/likes.js), the state store      *)
(* (src/state.js), the categorizer (gemini.js) and the vault writer        *)
(* (src/obsidian.js).                                                      *)
(*                                                                         *)
(* Strings are sequences of one-character tokens.  "dq" and "sq" stand for *)
(* the double and the single quote, "sp" for a whitespace character and    *)
(* "?" for a character that is reserved in file names.                     *)
(***************************************************************************)
EXTENDS Integers, Sequences, FiniteSets, TLC

\* ------------------------------------------------------------------ bounds

\* Items the user has liked, in the sync model.
NumItems == 2
\* Sync runs started in one behaviour.
MaxRuns == 2
\* Longest fetched list handed to the diff when it is checked on its own.
MaxDiffLen == 3
\* How far below and above the upper length limit the oracle's labels reach.
LenSlack == 2
\* Longest id, and most ids in a set, when the state file's text is written and
\* read back.
MaxIdLen == 2
MaxIdSet == 2
\* Most files in the subtree the organizer starts on.
MaxTreeFiles == 2

\* ------------------------------------------------------------- characters

DQ == "dq"
SQ == "sq"
SP == "sp"
RESERVED == "?"

QuoteChars == {DQ, SQ}
WhiteChars == {SP}
\* the characters sanitizeFilename removes; the model's alphabet has two of them
ReservedChars == {DQ, RESERVED}

Range(s) == {s[i] : i \in 1..Len(s)}

Rep(c, n) == [i \in 1..n |-> c]

RECURSIVE TrimStart(_)
TrimStart(s) ==
    IF Len(s) > 0 /\ Head(s) \in WhiteChars THEN TrimStart(Tail(s)) ELSE s

RECURSIVE TrimEnd(_)
TrimEnd(s) ==
    IF Len(s) > 0 /\ s[Len(s)] \in WhiteChars
    THEN TrimEnd(SubSeq(s, 1, Len(s) - 1))
    ELSE s

\* String.prototype.trim
Trim(s) == TrimEnd(TrimStart(s))

\* str.replace(/^["']|["']$/g, ''): one quote off the front, one off the end
StripQuotes(s) ==
    LET s1 == IF Len(s) > 0 /\ Head(s) \in QuoteChars THEN Tail(s) ELSE s
    IN  IF Len(s1) > 0 /\ s1[Len(s1)] \in QuoteChars
        THEN SubSeq(s1, 1, Len(s1) - 1)
        ELSE s1

\* ---------------------------------------------------------------- config

uncategorizedFolder == <<"U", "n", "c", "a", "t", "e", "g", "o", "r", "i", "z", "e", "d">>
bookmarksFolder == "Twitter Bookmarks"
likesFolder == "Twitter Likes"

\* the length limits of categorizeBatch's validation
MinLabelLen == 2
MaxLabelLen == 50

\* ------------------------------------------------------------------ items

Ids == 1..NumItems
Names == {"n1", "n2"}

\* An item: its id and the file name generateFilename derives from its date,
\* author and text (two items can share it).
Item(i) == [id |-> i, name |-> IF i % 2 = 1 THEN "n1" ELSE "n2"]

\* the items the diff is checked on by itself: ids can repeat
DiffItems == [id : {1, 2}, name : Names]
DiffIds == {1, 2, 3}

\* The user's likes, newest first: ids are unique, items 1 and 3 share a file
\* name.
Timeline == [k \in 1..NumItems |-> Item(NumItems + 1 - k)]

IdsOf(items) == {items[i].id : i \in 1..Len(items)}

SeqsUpTo(S, n) == UNION {[1..k -> S] : k \in 0..n}

\* ------------------------------------------------------------ state store

\* Array.prototype.filter, left to right
RECURSIVE Filter(_, _)
Filter(s, P) ==
    IF s = <<>> THEN <<>>
    ELSE IF Head(s).id \notin P THEN <<Head(s)>> \o Filter(Tail(s), P)
         ELSE Filter(Tail(s), P)

\* a filter that keeps its matches in reverse order
RECURSIVE FilterReversed(_, _)
FilterReversed(s, P) ==
    IF s = <<>> THEN <<>>
    ELSE IF Head(s).id \notin P THEN FilterReversed(Tail(s), P) \o <<Head(s)>>
         ELSE FilterReversed(Tail(s), P)

\* a diff that returns the new items last to first
findNewLikesReversed(likes, processedIds) == FilterReversed(likes, processedIds)

\* a diff that takes no notice of the processed set
findNewLikesAll(likes, processedIds) == likes

\* likes.filter(l => !processedIds.has(l.id)); processedIds is a Set
findNewLikes(likes, processedIds) == Filter(likes, processedIds)

\* ------------------------------------------------------------ categorizer

\* A value of the parsed reply: a string, something that is not a string
\* (a number, an object, ...) or nothing at all (no such key, or null).
Absent == [kind |-> "absent", s |-> <<>>]
NonString == [kind |-> "nonstring", s |-> <<>>]
Str(s) == [kind |-> "string", s |-> s]

\* The oracle's reply text: an optional opening code fence, the JSON text and an
\* optional closing fence.  json is "invalid" (no JSON), "null" (JSON null),
\* "scalar" (a number or a boolean) or "object", with obj the object's members.
Reply(fo, fc, json, obj) ==
    [throws |-> FALSE, fenceOpen |-> fo, fenceClose |-> fc, json |-> json, obj |-> obj]
\* generateContent rejects (network error, quota, no client)
OracleThrows ==
    [throws |-> TRUE, fenceOpen |-> FALSE, fenceClose |-> FALSE, json |-> "invalid",
     obj |-> <<>>]

\* response.replace(/^```json?\n?/, '').replace(/\n?```$/, ''), done only when
\* the response starts with a fence
stripFence(r) ==
    IF r.fenceOpen THEN [r EXCEPT !.fenceOpen = FALSE, !.fenceClose = FALSE] ELSE r

\* JSON.parse: does it throw on this text?
jsonParseThrows(r) == r.fenceOpen \/ r.fenceClose \/ r.json = "invalid"

\* parsed[tweet.id]
lookup(r, id) ==
    IF r.json = "object" /\ id \in DOMAIN r.obj THEN r.obj[id] ELSE Absent

\* a validation that lets a label of MaxLabelLen + 1 characters through
rejectedOffByOne(v) ==
    \/ v.kind # "string"
    \/ v.s = <<>>
    \/ Len(v.s) < MinLabelLen
    \/ Len(v.s) > MaxLabelLen + 1

\* the validation of one label: is it replaced by the fallback?
rejected(v) ==
    \/ v.kind # "string"
    \/ v.s = <<>>
    \/ Len(v.s) < MinLabelLen
    \/ Len(v.s) > MaxLabelLen

\* category.replace(/^["']|["']$/g, '').trim()
cleanUp(s) == Trim(StripQuotes(s))

\* the body of the loop over the batch: validate, then clean up
labelFor(v) == cleanUp(IF rejected(v) THEN uncategorizedFolder ELSE v.s)

\* The try block: threw says whether it ended in an exception, categories is
\* the map it returned otherwise.
tryCategorize(tweets, oracle) ==
    LET r == stripFence(oracle)
        ids == IdsOf(tweets)
    IN  IF oracle.throws \/ jsonParseThrows(r) \/ (r.json = "null" /\ tweets # <<>>)
        THEN [threw |-> TRUE, categories |-> <<>>]
        ELSE [threw |-> FALSE,
              categories |-> [id \in ids |-> labelFor(lookup(r, id))]]

\* the catch block
fallbackAll(tweets) == [id \in IdsOf(tweets) |-> uncategorizedFolder]

\* a categorizer without its catch block
categorizeBatchNoCatch(tweets, oracle) ==
    LET t == tryCategorize(tweets, oracle)
    IN  [raised |-> t.threw, categories |-> t.categories]

\* a categorizer that sets no label for the last item of the batch
categorizeBatchDropLast(tweets, oracle) ==
    LET t == tryCategorize(tweets, oracle)
        keep == IF tweets = <<>> THEN {} ELSE IdsOf(SubSeq(tweets, 1, Len(tweets) - 1))
    IN  [raised |-> FALSE,
         categories |-> IF t.threw THEN fallbackAll(tweets)
                        ELSE [id \in keep |-> t.categories[id]]]

\* categorizeBatch: raised says whether the call ends in an exception.
categorizeBatch(tweets, oracle) ==
    LET t == tryCategorize(tweets, oracle)
    IN  [raised |-> FALSE,
         categories |-> IF t.threw THEN fallbackAll(tweets) ELSE t.categories]

\* ------------------------------------------- the oracle's replies, bounded

Affixes == {<<>>, <<DQ>>, <<SQ>>, <<SP>>}
CoreLens == (0..(MinLabelLen + 1)) \cup ((MaxLabelLen - LenSlack)..(MaxLabelLen + LenSlack))
OracleLabels == {pre \o Rep("a", n) \o suf : pre \in Affixes, suf \in Affixes, n \in CoreLens}
OracleValues == {Absent, NonString} \cup {Str(s) : s \in OracleLabels}

\* the batches the categorizer is checked on by itself
CatBatches ==
    {<<>>,
     <<Item(1)>>,
     <<Item(1), Item(2)>>,
     <<Item(1), [id |-> 1, name |-> "n2"]>>}

\* the replies that are text
TextReplies(ids, values) ==
    {Reply(fo, fc, "object", obj) : fo \in BOOLEAN, fc \in BOOLEAN, obj \in [ids -> values]}
    \cup {Reply(fo, fc, j, <<>>) : fo \in BOOLEAN, fc \in BOOLEAN,
                                   j \in {"invalid", "null", "scalar"}}

\* ---------------------------------------------------------- the JS Set

\* some enumeration of a finite set
RECURSIVE SetToSeq(_)
SetToSeq(S) ==
    IF S = {} THEN <<>>
    ELSE LET x == CHOOSE y \in S : TRUE IN <<x>> \o SetToSeq(S \ {x})

\* A Set of JavaScript is modelled as a set: the order of insertion shows only
\* in the order of the array written to the state file, which no code reads.
\* new Set(array)
SetFrom(arr) == Range(arr)

\* for (const { tweet } of results) processedIds.add(tweet.id)
RECURSIVE SetAddAll(_, _)
SetAddAll(S, xs) ==
    IF xs = <<>> THEN S ELSE SetAddAll(S \cup {Head(xs)}, Tail(xs))

\* Array.from(set)
ArrayFrom(S) == SetToSeq(S)

\* ------------------------------------------------------ the state file

\* A state file, as JSON.parse reads it.  kind: "missing" (no file; dir: does its
\* directory exist?), "unreadable" (readFileSync throws), "corrupt" (no JSON),
\* "null" (the JSON text null), "nokey" (an object with no processedIds),
\* "scalar" (processedIds is a number or a boolean), "object" (processedIds is
\* an object), "string" (processedIds is a string, its characters in
\* processedIds) or "valid" (processedIds is an array).
MissingFile(dir) == [kind |-> "missing", dir |-> dir, processedIds |-> <<>>]
CorruptFile == [kind |-> "corrupt", dir |-> TRUE, processedIds |-> <<>>]
ValidFile(arr) == [kind |-> "valid", dir |-> TRUE, processedIds |-> arr]
StringFile(chars) == [kind |-> "string", dir |-> TRUE, processedIds |-> chars]
OtherFile(kind) == [kind |-> kind, dir |-> TRUE, processedIds |-> <<>>]

\* the ids the state file holds
IdsIn(file) == IF file.kind = "valid" THEN Range(file.processedIds) ELSE {}

\* The try block of loadLikesState: readFileSync, JSON.parse, data.lastUpdated,
\* data.processedIds.length and new Set(data.processedIds) each can throw.
tryLoad(file) ==
    IF file.kind = "missing" THEN [threw |-> FALSE, ids |-> {}]
    ELSE IF file.kind \in {"valid", "string"}
         THEN [threw |-> FALSE, ids |-> SetFrom(file.processedIds)]
         ELSE [threw |-> TRUE, ids |-> {}]

\* loadLikesState with its catch block: raised says whether the call ends in an
\* exception
loadLikesStateOutcome(file) ==
    LET t == tryLoad(file)
    IN  [raised |-> FALSE, ids |-> IF t.threw THEN {} ELSE t.ids]

\* a load that forgets what the file holds
loadLikesStateEmpty(file) == {}

loadLikesState(file) == loadLikesStateOutcome(file).ids

\* loadState: the same code on config.stateFile
loadStateOutcome(file) ==
    LET t == tryLoad(file)
    IN  [raised |-> FALSE, ids |-> IF t.threw THEN {} ELSE t.ids]

\* mkdirSync(dir, recursive) when missing, then writeFileSync
saveLikesState(processedIds) == ValidFile(ArrayFrom(processedIds))

\* saveState: the same code on config.stateFile
saveState(processedIds) == ValidFile(ArrayFrom(processedIds))

\* --------------------------------------------- the state file's text

BS == "bs"

\* a character written as it is, the quote and the backslash too
escapeCharNone(c) == <<c>>

\* a character as JSON.stringify writes it inside a string
escapeChar(c) == IF c \in {DQ, BS} THEN <<BS, c>> ELSE <<c>>

RECURSIVE jsonEscape(_)
jsonEscape(str) ==
    IF str = <<>> THEN <<>> ELSE escapeChar(Head(str)) \o jsonEscape(Tail(str))

jsonString(str) == <<DQ>> \o jsonEscape(str) \o <<DQ>>

RECURSIVE jsonElements(_)
jsonElements(arr) ==
    IF arr = <<>> THEN <<>>
    ELSE IF Len(arr) = 1 THEN jsonString(arr[1])
         ELSE jsonString(arr[1]) \o <<",">> \o jsonElements(Tail(arr))

jsonArray(arr) == <<"[">> \o jsonElements(arr) \o <<"]">>

\* JSON.stringify({ lastUpdated, processedIds }, null, 2), without its white space
stringifyState(lastUpdated, processedIds) ==
    <<"{">> \o jsonString(<<"lastUpdated">>) \o <<":">> \o jsonString(lastUpdated)
    \o <<",">> \o jsonString(<<"processedIds">>) \o <<":">> \o jsonArray(processedIds)
    \o <<"}">>

ParseFail == [ok |-> FALSE, val |-> <<>>, next |-> 0]

\* JSON.parse inside a string: from position i to the closing quote
RECURSIVE scanString(_, _, _)
scanString(t, i, acc) ==
    IF i > Len(t) THEN ParseFail
    ELSE IF t[i] = DQ THEN [ok |-> TRUE, val |-> acc, next |-> i + 1]
    ELSE IF t[i] = BS
         THEN IF i + 1 <= Len(t) /\ t[i + 1] \in {DQ, BS}
              THEN scanString(t, i + 2, Append(acc, t[i + 1]))
              ELSE ParseFail
         ELSE scanString(t, i + 1, Append(acc, t[i]))

parseString(t, i) ==
    IF i <= Len(t) /\ t[i] = DQ THEN scanString(t, i + 1, <<>>) ELSE ParseFail

\* the elements of an array of strings, from the first element at position i
RECURSIVE parseElements(_, _, _)
parseElements(t, i, acc) ==
    LET e == parseString(t, i)
    IN  IF ~e.ok \/ e.next > Len(t) THEN ParseFail
        ELSE IF t[e.next] = "]"
             THEN [ok |-> TRUE, val |-> Append(acc, e.val), next |-> e.next + 1]
        ELSE IF t[e.next] = ","
             THEN parseElements(t, e.next + 1, Append(acc, e.val))
             ELSE ParseFail

parseArray(t, i) ==
    IF i + 1 > Len(t) \/ t[i] # "[" THEN ParseFail
    ELSE IF t[i + 1] = "]" THEN [ok |-> TRUE, val |-> <<>>, next |-> i + 2]
         ELSE parseElements(t, i + 1, <<>>)

\* is the token at position i the token c?
At(t, i, c) == i >= 1 /\ i <= Len(t) /\ t[i] = c

\* JSON.parse of a state file's text, for a text that is an object of the string
\* lastUpdated and the array of strings processedIds; any other text is taken
\* as no JSON
parseState(t) ==
    LET k1 == parseString(t, 2)
        v1 == parseString(t, k1.next + 1)
        k2 == parseString(t, v1.next + 1)
        v2 == parseArray(t, k2.next + 1)
    IN  IF /\ At(t, 1, "{")
           /\ k1.ok /\ k1.val = <<"lastUpdated">> /\ At(t, k1.next, ":")
           /\ v1.ok /\ At(t, v1.next, ",")
           /\ k2.ok /\ k2.val = <<"processedIds">> /\ At(t, k2.next, ":")
           /\ v2.ok /\ At(t, v2.next, "}") /\ v2.next = Len(t)
        THEN ValidFile(v2.val)
        ELSE CorruptFile

\* the file on disk after writeFileSync of the saved state, as JSON.parse reads it
written(file) == parseState(stringifyState(<<"ts">>, file.processedIds))

\* ------------------------------------------------------------ the vault

\* String.prototype.replace(/[<>:"/\\|?*]/g, '')
RECURSIVE RemoveReserved(_)
RemoveReserved(s) ==
    IF s = <<>> THEN <<>>
    ELSE IF Head(s) \in ReservedChars THEN RemoveReserved(Tail(s))
         ELSE <<Head(s)>> \o RemoveReserved(Tail(s))

\* String.prototype.replace(/\s+/g, ' ')
RECURSIVE CollapseWhite(_)
CollapseWhite(s) ==
    IF Len(s) < 2 THEN s
    ELSE IF s[1] \in WhiteChars /\ s[2] \in WhiteChars THEN CollapseWhite(Tail(s))
         ELSE <<Head(s)>> \o CollapseWhite(Tail(s))

MaxFilenameLen == 100

sanitizeFilename(str) ==
    LET t == Trim(CollapseWhite(RemoveReserved(str)))
    IN  SubSeq(t, 1, IF Len(t) < MaxFilenameLen THEN Len(t) ELSE MaxFilenameLen)

\* path.join(base, name): an empty name adds no component
Join(base, name) == IF name = <<>> THEN base ELSE Append(base, name)

\* join(config.vaultPath, config.bookmarksFolder): the root the vault writer
\* uses, whatever its caller passes as a fourth argument
basePath == <<bookmarksFolder>>

\* mkdirSync(path, { recursive: true })
MkdirP(ds, path) == ds \cup {SubSeq(path, 1, k) : k \in 1..Len(path)}

\* writeFileSync(path, content): overwrites what is there
WriteFile(fs, path, id) == {f \in fs : f.path # path} \cup {[path |-> path, id |-> id]}

\* getExistingCategories: the folders right below the root ([] when the root
\* does not exist)
getExistingCategories(ds) ==
    IF basePath \notin ds THEN <<>>
    ELSE SetToSeq({d[Len(d)] : d \in {e \in ds : Len(e) = Len(basePath) + 1
                                               /\ SubSeq(e, 1, Len(basePath)) = basePath}})

\* ------------------------------------------------------------ the fetcher

\* config.maxPages as the user may set it (0: no limit)
MaxPagesSettings == {0, 2}
\* the -n of the dry run's command
SampleCount == 5

\* The command line of the bird tool: all (--all), pages (--max-pages, 0 when
\* not given) and count (-n, 0 when not given).
BirdCommand(all, pages, count) == [all |-> all, pages |-> pages, count |-> count]

\* fetchLikes: Build command based on mode
fetchLikesCommand(fullSync, dryRun, maxPages) ==
    IF dryRun THEN BirdCommand(FALSE, 0, SampleCount)
    ELSE IF fullSync THEN BirdCommand(TRUE, 0, 0)
    ELSE IF maxPages > 0 THEN BirdCommand(TRUE, maxPages, 0)
    ELSE BirdCommand(TRUE, 0, 0)

\* fetchBookmarks: the same code with bird bookmarks
fetchBookmarksCommand(fullSync, dryRun, maxPages) ==
    IF dryRun THEN BirdCommand(FALSE, 0, SampleCount)
    ELSE IF fullSync THEN BirdCommand(TRUE, 0, 0)
    ELSE IF maxPages > 0 THEN BirdCommand(TRUE, maxPages, 0)
    ELSE BirdCommand(TRUE, 0, 0)

\* What the bird process leaves: its exit ("ok", or "fail": execSync throws an
\* error with the message of the process and its stdout) and its stdout: empty,
\* text that is no JSON, or the JSON value it holds.
JsonArray(items) == [json |-> "array", items |-> items, hasTweets |-> FALSE]
JsonObject(hasTweets, items) == [json |-> "object", items |-> items, hasTweets |-> hasTweets]
JsonNull == [json |-> "null", items |-> <<>>, hasTweets |-> FALSE]
JsonNumber == [json |-> "number", items |-> <<>>, hasTweets |-> FALSE]
Stdout(text, value) == [text |-> text, value |-> value]
FetchedLists == {<<>>, <<Item(2), Item(1)>>}
JsonValues ==
    {JsonArray(l) : l \in FetchedLists} \cup {JsonObject(TRUE, l) : l \in FetchedLists}
    \cup {JsonObject(FALSE, <<>>), JsonNull, JsonNumber}
Stdouts == {Stdout("empty", JsonNull), Stdout("invalid", JsonNull)}
           \cup {Stdout("json", v) : v \in JsonValues}
Process(exit, stdout) == [exit |-> exit, stdout |-> stdout]
Processes == {Process(e, o) : e \in {"ok", "fail"}, o \in Stdouts}

\* JSON.parse(text), then Array.isArray(parsed) ? parsed : (parsed.tweets || []):
\* throws a SyntaxError on text that is no JSON (the empty text too) and a
\* TypeError on null
parseItems(stdout) ==
    IF stdout.text # "json" THEN [threw |-> TRUE, message |-> "SyntaxError", items |-> <<>>]
    ELSE IF stdout.value.json = "null"
    THEN [threw |-> TRUE, message |-> "TypeError", items |-> <<>>]
    ELSE IF stdout.value.json = "array" \/ stdout.value.hasTweets
    THEN [threw |-> FALSE, message |-> "", items |-> stdout.value.items]
    ELSE [threw |-> FALSE, message |-> "", items |-> <<>>]

\* new Error(`Failed to fetch ${noun}: ${error.message}`)
FetchError(noun, message) == [prefix |-> "Failed to fetch", noun |-> noun, message |-> message]
NoError == [prefix |-> "", noun |-> "", message |-> ""]

Returned(items, execs) == [raised |-> FALSE, items |-> items, error |-> NoError, execs |-> execs]
Raised(error, execs) == [raised |-> TRUE, items |-> <<>>, error |-> error, execs |-> execs]

\* the try and the catch of a fetch: execSync once, the parse of its result, and
\* in the catch the parse of error.stdout when there is one
runFetch(noun, process) ==
    IF process.exit = "ok"
    THEN LET p == parseItems(process.stdout)
         IN  IF p.threw THEN Raised(FetchError(noun, p.message), 1)
             ELSE Returned(p.items, 1)
    ELSE LET p == parseItems(process.stdout)
         IN  IF process.stdout.text # "empty" /\ ~p.threw THEN Returned(p.items, 1)
             ELSE Raised(FetchError(noun, "Command failed"), 1)

fetchLikesResult(process) == runFetch("likes", process)
fetchBookmarksResult(process) == runFetch("bookmarks", process)

\* ------------------------------------------------ the sync's environment

\* the sublists of a list, in its order
RECURSIVE SubLists(_)
SubLists(l) ==
    IF l = <<>> THEN {<<>>}
    ELSE LET rest == SubLists(Tail(l))
         IN  rest \cup {<<Head(l)>> \o r : r \in rest}

\* what the fetch tool can return: some of the user's likes, newest first
FetchLists == SubLists(Timeline)

\* config.batchSize and config.maxTweetsPerRun, as the user may set them
BatchSizeSettings == {0, 1, 2}
MaxTweetsSettings == {0, 1}
DefaultBatchSize == 10

\* the labels of the oracle in a sync run
SyncLabels == {<<"a", "a">>}
SyncValues == {Absent} \cup {Str(s) : s \in SyncLabels}
SyncReplies(ids, values) ==
    {OracleThrows} \cup {Reply(FALSE, FALSE, "object", obj) : obj \in [ids -> values]}

\* the state files and the vaults a behaviour starts from
InitialFiles ==
    {MissingFile(FALSE), CorruptFile, ValidFile(<<1>>), ValidFile(<<9, 2, 9>>)}
InitialDirs == {{}}

VARIABLES
    batchSizeSetting,   \* config.batchSize
    maxTweetsPerRun,    \* config.maxTweetsPerRun
    stateFile,          \* the likes state file
    dirs,               \* the directories of the vault
    files,              \* the documents of the vault: [path, id]
    pc,                 \* where main is
    runs,               \* runs started so far
    isDryRun,           \* --dry-run
    likes,              \* what the fetch returned
    processedIds,       \* the Set main loaded and adds to
    newLikes,           \* the diff
    toProcess,          \* the diff, capped
    existingCategories, \* the known categories
    batchIdx,           \* the loop counter
    batch,              \* the batch in flight
    oracle,             \* the oracle's reply for it
    batchCategories,    \* categorizeBatch's map for it
    itemIdx,            \* the item saveTweetsToVault is at
    results,            \* saveTweetsToVault's results
    oracleLog,          \* history: the batches sent to the oracle in this run
    writtenThisRun,     \* history: ids whose document write succeeded in this run
    failedThisRun,      \* history: ids whose document write threw in this run
    savesThisRun,       \* history: calls of saveLikesState in this run
    atStart,            \* history: the state file and the vault when this run started
    lastRun,            \* history: the run before this one
    diffCall,           \* a call of findNewLikes on its own
    catCall,            \* a call of categorizeBatch on its own
    storeCall,          \* a call of a load, or of a save and then a load, on its own
    fetchCall,          \* the command a fetch builds, on its own
    orgDirs,            \* the organizer's target subtree: its folders
    orgFiles,           \* the organizer's target subtree: its files
    backups,            \* the backup copies made, each the files it holds
    orgPc,              \* where the organizer's main is
    orgRun,             \* "none", "first" or "second": the organizer run at hand
    orgDryRun,          \* --dry-run
    shouldBackup,       \* neither --no-backup nor a no to the backup prompt
    orgOracle,          \* the oracle's reply, restricted to each batch it is asked
    notes,              \* the parsed notes
    allCategories,      \* the labels of the notes
    orgCategories,      \* the organizer's existingCategories
    orgBatchIdx,        \* the loop counter of STEP 7
    noteIdx,            \* the note the loop of STEP 8 is at
    movedCount,
    skippedCount,
    newFolders,
    orgInitial,         \* history: the files of the subtree before the first run
    orgAtStart,         \* history: the subtree and the backups when this run started
    firstRun            \* history: the counts the first run ended with

fsVars == <<stateFile, dirs, files>>
cfgVars == <<batchSizeSetting, maxTweetsPerRun>>
runVars == <<pc, runs, isDryRun, likes, processedIds, newLikes, toProcess,
             existingCategories, batchIdx, batch, oracle, batchCategories, itemIdx,
             results>>
histVars == <<oracleLog, writtenThisRun, failedThisRun, savesThisRun, atStart>>
fnVars == <<diffCall, catCall, storeCall, fetchCall>>
orgTree == <<orgDirs, orgFiles, backups>>
orgLocals == <<orgPc, orgRun, orgDryRun, shouldBackup, notes, allCategories, orgCategories,
               orgBatchIdx, noteIdx, movedCount, skippedCount, newFolders>>
orgLocalsButPc == <<orgRun, orgDryRun, shouldBackup, notes, allCategories, orgCategories,
                    orgBatchIdx, noteIdx, movedCount, skippedCount, newFolders>>
orgVars == <<orgTree, orgLocals, orgOracle, orgInitial, orgAtStart, firstRun>>
vars == <<cfgVars, fsVars, runVars, histVars, lastRun, fnVars, orgVars>>

\* no earlier run, or one that was a dry run, failed, was killed, was cut by
\* maxTweetsPerRun or had a write fail; stateDeleted: the state file was deleted
\* since this run ended.  streak: the runs with a cap, one after the other up to
\* the last one, that fetched the list likes and went to their summary, not as
\* dry runs, with every write done; firstNew: the diff of the first of them.
NoLastRun == [clean |-> FALSE, likes |-> <<>>, stateDeleted |-> FALSE,
              streak |-> 0, firstNew |-> <<>>]

NoDiffCall == [done |-> FALSE, F |-> <<>>, P |-> {}, out |-> <<>>]
NoCatCall == [done |-> FALSE, tweets |-> <<>>, oracle |-> OracleThrows,
              out |-> [raised |-> FALSE, categories |-> <<>>]]

NoStoreCall == [op |-> "none", kind |-> "likes", ids |-> {}, file |-> MissingFile(FALSE),
                out |-> [raised |-> FALSE, ids |-> {}]]

NoFetchCall == [done |-> FALSE, kind |-> "likes", fullSync |-> FALSE, dryRun |-> FALSE,
                maxPages |-> 0, command |-> BirdCommand(FALSE, 0, 0),
                process |-> Process("ok", Stdout("empty", JsonNull)),
                out |-> Returned(<<>>, 0)]

\* the organizer before its first line
OrgLocalsFresh(p, r, d, b) ==
    /\ orgPc = p
    /\ orgRun = r
    /\ orgDryRun = d
    /\ shouldBackup = b
    /\ notes = <<>>
    /\ allCategories = <<>>
    /\ orgCategories = <<>>
    /\ orgBatchIdx = 0
    /\ noteIdx = 0
    /\ movedCount = 0
    /\ skippedCount = 0
    /\ newFolders = {}

NoFirstRun == [ended |-> FALSE, dry |-> FALSE, moved |-> 0, skipped |-> 0]

\* the organizer is not run, its subtree is empty
OrgNone ==
    /\ orgDirs = {<<>>}
    /\ orgFiles = {}
    /\ backups = <<>>
    /\ OrgLocalsFresh("idle", "none", FALSE, FALSE)
    /\ orgOracle = OracleThrows
    /\ orgInitial = {}
    /\ orgAtStart = [dirs |-> {<<>>}, files |-> {}, backups |-> <<>>]
    /\ firstRun = NoFirstRun

\* the sync before its first line
SyncInit ==
    /\ batchSizeSetting \in BatchSizeSettings
    /\ maxTweetsPerRun \in MaxTweetsSettings
    /\ stateFile \in InitialFiles
    /\ dirs \in InitialDirs
    /\ files = {}
    /\ pc = "idle"
    /\ runs = 0
    /\ isDryRun = FALSE
    /\ likes = <<>>
    /\ processedIds = {}
    /\ newLikes = <<>>
    /\ toProcess = <<>>
    /\ existingCategories = <<>>
    /\ batchIdx = 0
    /\ batch = <<>>
    /\ oracle = OracleThrows
    /\ batchCategories = <<>>
    /\ itemIdx = 0
    /\ results = <<>>
    /\ oracleLog = <<>>
    /\ writtenThisRun = {}
    /\ failedThisRun = {}
    /\ savesThisRun = 0
    /\ atStart = [stateFile |-> stateFile, dirs |-> dirs, files |-> files]
    /\ lastRun = NoLastRun
    /\ diffCall = NoDiffCall
    /\ catCall = NoCatCall
    /\ storeCall = NoStoreCall
    /\ fetchCall = NoFetchCall

Init == SyncInit /\ OrgNone

\* const batchSize = config.batchSize || 10
batchSize == IF batchSizeSetting = 0 THEN DefaultBatchSize ELSE batchSizeSetting

\* Math.ceil(n / b)
CeilDiv(n, b) == (n + b - 1) \div b

\* a batch count that forgets the last, partial batch
totalBatchesFloor(n) == n \div batchSize

totalBatches(n) == CeilDiv(n, batchSize)

Stopped == pc \in {"idle", "done", "failed", "crashed"}

\* ------------------------------------------------------ the vault writer

\* categories.get(tweet.id) || config.uncategorizedFolder
categoryOf(categories, id) ==
    IF id \in DOMAIN categories /\ categories[id] # <<>> THEN categories[id]
    ELSE uncategorizedFolder

\* a vault writer that takes no notice of dryRun
saveTweetToVaultAlways(tweet, category, dryRun, ds, fs, outcome) ==
    LET folderPath == Join(basePath, sanitizeFilename(category))
        filePath == Append(folderPath, tweet.name)
    IN  [threw |-> outcome # "ok",
         dirs |-> IF outcome = "mkdirThrows" THEN ds ELSE MkdirP(ds, folderPath),
         files |-> IF outcome = "ok" THEN WriteFile(fs, filePath, tweet.id) ELSE fs,
         wrote |-> outcome = "ok",
         path |-> filePath]

\* saveTweetToVault on the directories ds and the documents fs.  outcome: "ok",
\* "mkdirThrows" (mkdirSync throws) or "laterThrows" (generateFilename,
\* formatTweetAsMarkdown or writeFileSync throws).  wrote: was a document written?
saveTweetToVault(tweet, category, dryRun, ds, fs, outcome) ==
    LET folderPath == Join(basePath, sanitizeFilename(category))
        needMkdir == ~dryRun /\ folderPath \notin ds
        filePath == Append(folderPath, tweet.name)
        wrote == ~dryRun /\ outcome = "ok"
    IN  [threw |-> outcome # "ok",
         dirs |-> IF needMkdir /\ outcome # "mkdirThrows" THEN MkdirP(ds, folderPath) ELSE ds,
         files |-> IF wrote THEN WriteFile(fs, filePath, tweet.id) ELSE fs,
         wrote |-> wrote,
         path |-> filePath]

\* what can happen to one saveTweetToVault call
Outcomes(category, dryRun, ds) ==
    {"ok", "laterThrows"}
    \cup (IF ~dryRun /\ Join(basePath, sanitizeFilename(category)) \notin ds
          THEN {"mkdirThrows"} ELSE {})

\* ------------------------------------------------------------ the sync

\* a push of every label
pushCategoryAlways(existing, category) == Append(existing, category)

\* if (!existingCategories.includes(category) && category !== config.uncategorizedFolder)
\*   existingCategories.push(category)
pushCategory(existing, category) ==
    IF category \notin Range(existing) /\ category # uncategorizedFolder
    THEN Append(existing, category) ELSE existing

\* Track new categories for future batches: the labels of the map in insertion
\* order, each pushed unless known or the fallback
RECURSIVE foldCategories(_, _, _)
foldCategories(existing, categories, tweets) ==
    IF tweets = <<>> THEN existing
    ELSE foldCategories(pushCategory(existing, categories[Head(tweets).id]),
                        categories, Tail(tweets))

\* the batch of the loop's round idx
batchAt(list, idx) ==
    LET start == idx * batchSize
        end == IF start + batchSize < Len(list) THEN start + batchSize ELSE Len(list)
    IN  SubSeq(list, start + 1, end)

\* no limit
cappedNot(list) == list

\* Apply limit if configured
capped(list) ==
    IF maxTweetsPerRun > 0 /\ Len(list) > maxTweetsPerRun
    THEN SubSeq(list, 1, maxTweetsPerRun)
    ELSE list

\* ids recorded for a batch: those of every item of the batch, written or not
idsToRecordAll(res, tweets) == [i \in 1..Len(tweets) |-> tweets[i].id]

\* for (const { tweet } of results): the ids the state gets for a batch
idsToRecord(res, tweets) == [i \in 1..Len(res) |-> res[i].tweet.id]

\* a sync that saves the state once, after the last batch
persistAtEnd(file, ids, isLast) == IF isLast THEN saveLikesState(ids) ELSE file

\* 4c. Update state immediately: the state file after a batch
persist(file, ids, isLast) == saveLikesState(ids)

\* a fresh process: main's locals as they are before its first line
FreshLocals ==
    /\ likes' = <<>>
    /\ processedIds' = {}
    /\ newLikes' = <<>>
    /\ toProcess' = <<>>
    /\ existingCategories' = <<>>
    /\ batchIdx' = 0
    /\ batch' = <<>>
    /\ oracle' = OracleThrows
    /\ batchCategories' = <<>>
    /\ itemIdx' = 0
    /\ results' = <<>>
    /\ oracleLog' = <<>>
    /\ writtenThisRun' = {}
    /\ failedThisRun' = {}
    /\ savesThisRun' = 0

\* the run that ends here went to its summary, not as a dry run, with every
\* write done and no item cut off by maxTweetsPerRun
EndedClean ==
    /\ pc = "done"
    /\ ~isDryRun
    /\ failedThisRun = {}
    /\ toProcess = newLikes

\* the run that ends here had a cap and went to its summary, not as a dry run,
\* with every write done
EndedCapped ==
    /\ pc = "done"
    /\ ~isDryRun
    /\ failedThisRun = {}
    /\ maxTweetsPerRun > 0

\* the command is started, with or without --dry-run
StartRun ==
    /\ Stopped
    /\ runs < MaxRuns
    /\ \E dry \in BOOLEAN : isDryRun' = dry
    /\ runs' = runs + 1
    /\ pc' = "fetch"
    /\ FreshLocals
    /\ atStart' = [stateFile |-> stateFile, dirs |-> dirs, files |-> files]
    /\ lastRun' =
          LET clean == EndedClean /\ ~lastRun.stateDeleted
              cap == EndedCapped /\ ~lastRun.stateDeleted
              goesOn == lastRun.streak > 0 /\ lastRun.likes = likes
          IN  [clean |-> clean,
               likes |-> IF clean \/ cap THEN likes ELSE <<>>,
               stateDeleted |-> FALSE,
               streak |-> IF ~cap THEN 0 ELSE IF goesOn THEN lastRun.streak + 1 ELSE 1,
               firstNew |-> IF ~cap THEN <<>>
                            ELSE IF goesOn THEN lastRun.firstNew ELSE newLikes]
    /\ UNCHANGED <<orgVars, cfgVars, fsVars, fnVars>>

\* STEP 1: fetchLikes returns
Fetch ==
    /\ pc = "fetch"
    /\ \E l \in FetchLists :
        /\ likes' = l
        /\ pc' = IF l = <<>> THEN "done" ELSE "load"
    /\ UNCHANGED <<orgVars, cfgVars, lastRun, fsVars, fnVars, histVars, runs, isDryRun, processedIds,
                   newLikes, toProcess, existingCategories, batchIdx, batch, oracle,
                   batchCategories, itemIdx, results>>

\* STEP 1: fetchLikes throws
FetchFails ==
    /\ pc = "fetch"
    /\ pc' = "failed"
    /\ UNCHANGED <<orgVars, cfgVars, lastRun, fsVars, fnVars, histVars, runs, isDryRun, likes,
                   processedIds, newLikes, toProcess, existingCategories, batchIdx,
                   batch, oracle, batchCategories, itemIdx, results>>

\* STEP 2 and STEP 3: load the state, diff, cap, initGemini (which throws
\* without an API key), getExistingCategories
LoadAndDiff ==
    /\ pc = "load"
    /\ LET S == loadLikesState(stateFile)
           nl == findNewLikes(likes, S)
       IN  /\ processedIds' = S
           /\ newLikes' = nl
           /\ IF nl = <<>>
              THEN /\ pc' = "done"
                   /\ UNCHANGED <<toProcess, existingCategories>>
              ELSE /\ toProcess' = capped(nl)
                   /\ \E apiKey \in BOOLEAN :
                        IF apiKey
                        THEN /\ existingCategories' = getExistingCategories(dirs)
                             /\ pc' = IF 0 < totalBatches(Len(capped(nl)))
                                      THEN "categorize" ELSE "done"
                        ELSE /\ pc' = "failed"
                             /\ UNCHANGED existingCategories
    /\ UNCHANGED <<orgVars, cfgVars, lastRun, fsVars, fnVars, histVars, runs, isDryRun, likes, batchIdx,
                   batch, oracle, batchCategories, itemIdx, results>>

\* the batch is done: the next one, or the summary
AdvanceBatch ==
    IF batchIdx + 1 < totalBatches(Len(toProcess))
    THEN batchIdx' = batchIdx + 1 /\ pc' = "categorize"
    ELSE batchIdx' = batchIdx /\ pc' = "done"

\* 4a: one oracle request for the batch, the new labels are folded into the
\* known categories; then saveTweetsToVault's first lines (the root folder)
Categorize ==
    /\ pc = "categorize"
    /\ LET b == batchAt(toProcess, batchIdx)
       IN  \E reply \in SyncReplies(IdsOf(b), SyncValues) :
             LET out == categorizeBatch(b, reply)
                 needBase == ~isDryRun /\ basePath \notin dirs
             IN  /\ batch' = b
                 /\ oracle' = reply
                 /\ oracleLog' = Append(oracleLog, b)
                 /\ IF out.raised
                    THEN /\ pc' = "failed"
                         /\ UNCHANGED <<batchCategories, existingCategories, itemIdx,
                                        results, dirs>>
                    ELSE /\ batchCategories' = out.categories
                         /\ existingCategories' =
                                foldCategories(existingCategories, out.categories, b)
                         /\ results' = <<>>
                         /\ itemIdx' = 1
                         /\ \E baseOk \in (IF needBase THEN BOOLEAN ELSE {TRUE}) :
                              IF baseOk
                              THEN /\ dirs' = IF needBase THEN MkdirP(dirs, basePath) ELSE dirs
                                   /\ pc' = "write"
                              ELSE /\ dirs' = dirs
                                   /\ pc' = "failed"
    /\ UNCHANGED <<orgVars, cfgVars, lastRun, stateFile, files, fnVars, runs, isDryRun, likes,
                   processedIds, newLikes, toProcess, batchIdx, writtenThisRun,
                   failedThisRun, savesThisRun, atStart>>

\* 4b: saveTweetsToVault's loop, one item
WriteItem ==
    /\ pc = "write"
    /\ LET tweet == batch[itemIdx]
           category == categoryOf(batchCategories, tweet.id)
       IN  \E outcome \in Outcomes(category, isDryRun, dirs) :
             LET r == saveTweetToVault(tweet, category, isDryRun, dirs, files, outcome)
             IN  /\ dirs' = r.dirs
                 /\ files' = r.files
                 /\ results' = IF r.threw THEN results
                               ELSE Append(results, [tweet |-> tweet, path |-> r.path,
                                                     category |-> category])
                 /\ writtenThisRun' = IF r.wrote THEN writtenThisRun \cup {tweet.id}
                                      ELSE writtenThisRun
                 /\ failedThisRun' = IF r.threw THEN failedThisRun \cup {tweet.id}
                                     ELSE failedThisRun
    /\ IF itemIdx < Len(batch)
       THEN itemIdx' = itemIdx + 1 /\ pc' = "write" /\ batchIdx' = batchIdx
       ELSE /\ itemIdx' = itemIdx
            /\ IF isDryRun THEN AdvanceBatch ELSE pc' = "save" /\ batchIdx' = batchIdx
    /\ UNCHANGED <<orgVars, cfgVars, lastRun, stateFile, fnVars, runs, isDryRun, likes, processedIds,
                   newLikes, toProcess, existingCategories, batch, oracle,
                   batchCategories, oracleLog, savesThisRun, atStart>>

\* 4c: the ids of the results go into the Set, the Set into the state file
SaveState ==
    /\ pc = "save"
    /\ LET S == SetAddAll(processedIds, idsToRecord(results, batch))
           isLast == ~(batchIdx + 1 < totalBatches(Len(toProcess)))
       IN  /\ processedIds' = S
           /\ stateFile' = persist(stateFile, S, isLast)
    /\ savesThisRun' = savesThisRun + 1
    /\ AdvanceBatch
    /\ UNCHANGED <<orgVars, cfgVars, lastRun, dirs, files, fnVars, oracleLog, writtenThisRun,
                   failedThisRun, atStart, runs, isDryRun, likes,
                   newLikes, toProcess, existingCategories, batch, oracle,
                   batchCategories, itemIdx, results>>

\* the process is killed: what it held in memory is gone, the files stay
Crash ==
    /\ pc \in {"fetch", "load", "categorize", "write", "save"}
    /\ pc' = "crashed"
    /\ FreshLocals
    /\ atStart' = [stateFile |-> stateFile, dirs |-> dirs, files |-> files]
    /\ lastRun' = NoLastRun
    /\ UNCHANGED <<orgVars, cfgVars, fsVars, fnVars, runs, isDryRun>>

\* the user deletes the state file between two runs
DeleteState ==
    /\ Stopped
    /\ runs > 0
    /\ runs < MaxRuns
    /\ stateFile.kind # "missing"
    /\ stateFile' = MissingFile(TRUE)
    /\ lastRun' = [lastRun EXCEPT !.stateDeleted = TRUE]
    /\ UNCHANGED <<orgVars, cfgVars, dirs, files, fnVars, histVars, runVars>>

Next ==
    \/ StartRun
    \/ Fetch
    \/ FetchFails
    \/ LoadAndDiff
    \/ Categorize
    \/ WriteItem
    \/ SaveState
    \/ Crash
    \/ DeleteState

Spec == Init /\ [][Next]_vars

\* ------------------------------------------- the pure functions, by themselves

InitFn ==
    /\ Init
    /\ batchSizeSetting = 1
    /\ maxTweetsPerRun = 0
    /\ stateFile = MissingFile(FALSE)
    /\ dirs = {}

\* no function has been called yet
NoCall == ~diffCall.done /\ ~catCall.done /\ storeCall.op = "none" /\ ~fetchCall.done

DiffCall ==
    /\ NoCall
    /\ \E F \in SeqsUpTo(DiffItems, MaxDiffLen), P \in SUBSET DiffIds :
         diffCall' = [done |-> TRUE, F |-> F, P |-> P, out |-> findNewLikes(F, P)]
    /\ UNCHANGED <<orgVars, cfgVars, lastRun, fsVars, runVars, histVars, catCall, storeCall, fetchCall>>

CatCall ==
    /\ NoCall
    /\ \E tweets \in CatBatches :
         \E reply \in {OracleThrows} \cup TextReplies(IdsOf(tweets), OracleValues) :
            catCall' = [done |-> TRUE, tweets |-> tweets, oracle |-> reply,
                        out |-> categorizeBatch(tweets, reply)]
    /\ UNCHANGED <<orgVars, cfgVars, lastRun, fsVars, runVars, histVars, diffCall, storeCall, fetchCall>>

\* the two kinds of items, each with its state file and its load and save
Kinds == {"bookmarks", "likes"}
load(kind, file) ==
    IF kind = "likes" THEN loadLikesStateOutcome(file) ELSE loadStateOutcome(file)
save(kind, ids) == IF kind = "likes" THEN saveLikesState(ids) ELSE saveState(ids)

\* the ids a set is saved with: strings of digits, quotes and backslashes
IdChars == {"1", DQ, BS}
IdStrings == SeqsUpTo(IdChars, MaxIdLen)
RECURSIVE SetsUpTo(_, _)
SetsUpTo(S, n) ==
    IF n = 0 THEN {{}}
    ELSE LET smaller == SetsUpTo(S, n - 1)
         IN  smaller \cup {T \cup {x} : T \in smaller, x \in S}
IdSets == SetsUpTo(IdStrings, MaxIdSet)

\* the files a load can find
LoadFiles ==
    {MissingFile(FALSE), MissingFile(TRUE), CorruptFile,
     OtherFile("unreadable"), OtherFile("null"), OtherFile("nokey"),
     OtherFile("scalar"), OtherFile("object"),
     StringFile(<<>>), StringFile(<<"1", "2">>),
     ValidFile(<<>>), ValidFile(<<<<"1">>, <<"2">>, <<"1">>>>)}

\* save, then load, for one kind
SaveLoadCall ==
    /\ NoCall
    /\ \E kind \in Kinds, S \in IdSets :
         LET file == written(save(kind, S))
         IN  storeCall' = [op |-> "saveload", kind |-> kind, ids |-> S, file |-> file,
                           out |-> load(kind, file)]
    /\ UNCHANGED <<orgVars, cfgVars, lastRun, fsVars, runVars, histVars, diffCall, catCall, fetchCall>>

\* load, on whatever the state file is
LoadCall ==
    /\ NoCall
    /\ \E kind \in Kinds, file \in LoadFiles :
         storeCall' = [op |-> "load", kind |-> kind, ids |-> {}, file |-> file,
                       out |-> load(kind, file)]
    /\ UNCHANGED <<orgVars, cfgVars, lastRun, fsVars, runVars, histVars, diffCall, catCall, fetchCall>>

\* a fetch builds its command from --full, --dry-run and config.maxPages, runs
\* it and returns or throws
FetchCall ==
    /\ NoCall
    /\ \E kind \in Kinds, full \in BOOLEAN, dry \in BOOLEAN, pages \in MaxPagesSettings,
          process \in Processes :
         fetchCall' = [done |-> TRUE, kind |-> kind, fullSync |-> full, dryRun |-> dry,
                       maxPages |-> pages,
                       command |-> IF kind = "likes"
                                   THEN fetchLikesCommand(full, dry, pages)
                                   ELSE fetchBookmarksCommand(full, dry, pages),
                       process |-> process,
                       out |-> IF kind = "likes" THEN fetchLikesResult(process)
                               ELSE fetchBookmarksResult(process)]
    /\ UNCHANGED <<orgVars, cfgVars, lastRun, fsVars, runVars, histVars, diffCall, catCall,
                   storeCall>>

NextFn == DiffCall \/ CatCall \/ SaveLoadCall \/ LoadCall \/ FetchCall

SpecFn == InitFn /\ [][NextFn]_vars

\* ------------------------------------------------------------ the organizer

LabelA == <<"a", "a">>
LabelB == <<"b", "b">>
\* a label of two characters that sanitizeFilename removes
LabelQ == <<RESERVED, RESERVED>>

\* A file of the subtree: the folder it is in (a path below the target folder,
\* <<>> for the target folder itself), its name, and what parseMarkdownFile
\* finds in it: a note with an id, or no header block or no id.  A hidden file
\* is one whose name starts with a dot.
NoteFile(dir, name, id) == [dir |-> dir, name |-> name, id |-> id, kind |-> "note"]
UnparsedFile(dir, name) == [dir |-> dir, name |-> name, id |-> 0, kind |-> "unparsed"]
HiddenFile(dir, name) == [dir |-> dir, name |-> name, id |-> 0, kind |-> "hidden"]

\* The files a subtree is made of: two notes of the same name in two folders,
\* a note in the target folder itself, a note two folders deep, a file that
\* does not parse, and a hidden file.
OrgPool ==
    {NoteFile(<<LabelA>>, "n1", 1),
     NoteFile(<<LabelB>>, "n1", 2),
     NoteFile(<<>>, "n2", 3),
     NoteFile(<<LabelA, LabelB>>, "n2", 4),
     UnparsedFile(<<LabelB>>, "n2"),
     HiddenFile(<<LabelA>>, ".h")}
OrgTrees == {T \in SUBSET OrgPool : Cardinality(T) <= MaxTreeFiles}

\* the folders a set of files needs
DirsOf(fs) == {<<>>} \cup UNION {{SubSeq(f.dir, 1, k) : k \in 1..Len(f.dir)} : f \in fs}

\* the labels of the oracle in an organizer run: the same for an id whenever asked
OrgValues == {Absent, Str(LabelA), Str(LabelB), Str(LabelQ)}
NoteIds(fs) == {f.id : f \in {g \in fs : g.kind = "note"}}
OrgOracles(fs) ==
    {OracleThrows} \cup {Reply(FALSE, FALSE, "object", obj) : obj \in [NoteIds(fs) -> OrgValues]}

\* organize.js's sanitizeFilename
organizeSanitizeFilename(str) ==
    LET t == Trim(CollapseWhite(RemoveReserved(str)))
    IN  SubSeq(t, 1, IF Len(t) < MaxFilenameLen THEN Len(t) ELSE MaxFilenameLen)

\* readdirSync's order: folders and files by name
DirRank(d) == CASE d = LabelA -> 1 [] d = LabelB -> 2 [] OTHER -> 3
FileRank(n) == IF n = "n1" THEN 4 ELSE 5
PathKey(f) ==
    [i \in 1..(Len(f.dir) + 1) |->
        IF i <= Len(f.dir) THEN DirRank(f.dir[i]) ELSE FileRank(f.name)]

RECURSIVE KeyLess(_, _)
KeyLess(a, b) ==
    IF a = <<>> THEN b # <<>>
    ELSE IF b = <<>> THEN FALSE
    ELSE IF a[1] # b[1] THEN a[1] < b[1]
    ELSE KeyLess(Tail(a), Tail(b))

RECURSIVE SortFiles(_)
SortFiles(S) ==
    IF S = {} THEN <<>>
    ELSE LET m == CHOOSE f \in S : \A g \in S \ {f} : KeyLess(PathKey(f), PathKey(g))
         IN  <<m>> \o SortFiles(S \ {m})

\* getAllMarkdownFiles: the files of the subtree, folder by folder, depth first,
\* but for the entries whose name starts with a dot
getAllMarkdownFiles(fs) == SortFiles({f \in fs : f.kind # "hidden"})

\* parseMarkdownFile on each file: the notes, in the order of the files
RECURSIVE parseAll(_)
parseAll(fileSeq) ==
    IF fileSeq = <<>> THEN <<>>
    ELSE LET f == Head(fileSeq)
         IN  (IF f.kind = "note"
              THEN <<[id |-> f.id, dir |-> f.dir, name |-> f.name]>> ELSE <<>>)
             \o parseAll(Tail(fileSeq))

\* a backup that copies nothing
backupVaultNone(fs) == {}

\* backupVault: a recursive copy of the subtree next to the vault
backupVault(fs) == fs

\* allCategories.set(id, category) for each entry of the batch's map
mergeCategories(all, categories) ==
    [id \in (DOMAIN all) \cup (DOMAIN categories) |->
        IF id \in DOMAIN categories THEN categories[id] ELSE all[id]]

\* join(basePath, sanitizeFilename(category)), below the target folder
categoryFolderOf(category) == Join(<<>>, organizeSanitizeFilename(category))

\* renameSync(filePath, newPath): the file at filePath gets the new path, and
\* replaces a file that is there
Rename(fs, dir, name, newDir) ==
    LET src == CHOOSE f \in fs : f.dir = dir /\ f.name = name
    IN  {f \in fs : ~(f.dir = dir /\ f.name = name) /\ ~(f.dir = newDir /\ f.name = name)}
        \cup {[src EXCEPT !.dir = newDir]}

\* a move that takes no notice of dryRun
moveToCategoryAlways(note, category, dryRun, ds, fs, outcome) ==
    LET categoryFolder == categoryFolderOf(category)
        present == \E f \in fs : f.dir = note.dir /\ f.name = note.name
    IN  IF note.dir = categoryFolder
        THEN [moved |-> FALSE, threw |-> FALSE, dirs |-> ds, files |-> fs]
        ELSE IF outcome = "renameThrows" \/ ~present
        THEN [moved |-> FALSE, threw |-> TRUE, dirs |-> MkdirP(ds, categoryFolder),
              files |-> fs]
        ELSE [moved |-> TRUE, threw |-> FALSE, dirs |-> MkdirP(ds, categoryFolder),
              files |-> Rename(fs, note.dir, note.name, categoryFolder)]

\* moveToCategory on the folders ds and the files fs.  outcome: "ok" or
\* "renameThrows" (renameSync throws).
moveToCategory(note, category, dryRun, ds, fs, outcome) ==
    LET categoryFolder == categoryFolderOf(category)
        present == \E f \in fs : f.dir = note.dir /\ f.name = note.name
    IN  IF note.dir = categoryFolder
        THEN [moved |-> FALSE, threw |-> FALSE, dirs |-> ds, files |-> fs]
        ELSE IF dryRun
        THEN [moved |-> TRUE, threw |-> FALSE, dirs |-> ds, files |-> fs]
        ELSE IF outcome = "renameThrows" \/ ~present
        THEN [moved |-> FALSE, threw |-> TRUE, dirs |-> MkdirP(ds, categoryFolder),
              files |-> fs]
        ELSE [moved |-> TRUE, threw |-> FALSE, dirs |-> MkdirP(ds, categoryFolder),
              files |-> Rename(fs, note.dir, note.name, categoryFolder)]

\* is the path p below the folder d?
Below(p, d) == Len(p) > Len(d) /\ SubSeq(p, 1, Len(d)) = d

\* the folders right below the target folder with no file right in them
emptyTopDirsShallow(ds, fs) ==
    {d \in ds : Len(d) = 1 /\ ~\E f \in fs : f.dir = d /\ f.kind # "hidden"}

\* cleanupEmptyDirs: the folders right below the target folder that hold no
\* file and no folder, hidden ones apart, are removed with all they hold
emptyTopDirs(ds, fs) ==
    {d \in ds : /\ Len(d) = 1
                /\ ~\E f \in fs : f.dir = d /\ f.kind # "hidden"
                /\ ~\E e \in ds : Below(e, d) /\ Len(e) = 2}
cleanupEmptyDirs(ds, fs) ==
    LET gone == emptyTopDirs(ds, fs)
    IN  [dirs |-> {d \in ds : ~\E g \in gone : d = g \/ Below(d, g)},
         files |-> {f \in fs : ~\E g \in gone : f.dir = g \/ Below(f.dir, g)},
         cleaned |-> Cardinality(gone)]

OrgStopped == orgPc \in {"idle", "done", "failed", "cancelled"}

\* the organizer is started: its flags, and the operator's answer to the backup
\* prompt
OrgStart ==
    /\ OrgStopped
    /\ orgRun # "second"
    /\ orgRun' = IF orgRun = "none" THEN "first" ELSE "second"
    /\ \E dry \in BOOLEAN :
         /\ orgDryRun' = dry
         /\ \E bk \in (IF dry THEN {FALSE} ELSE BOOLEAN) : shouldBackup' = bk
    /\ orgPc' = "scan"
    /\ notes' = <<>>
    /\ allCategories' = <<>>
    /\ orgCategories' = <<>>
    /\ orgBatchIdx' = 0
    /\ noteIdx' = 0
    /\ movedCount' = 0
    /\ skippedCount' = 0
    /\ newFolders' = {}
    /\ orgAtStart' = [dirs |-> orgDirs, files |-> orgFiles, backups |-> backups]
    /\ firstRun' = IF orgRun = "first" /\ orgPc = "done"
                   THEN [ended |-> TRUE, dry |-> orgDryRun, moved |-> movedCount,
                         skipped |-> skippedCount]
                   ELSE NoFirstRun
    /\ UNCHANGED <<cfgVars, fsVars, runVars, histVars, lastRun, fnVars, orgTree,
                   orgOracle, orgInitial>>

\* STEP 3: scan and parse
OrgScan ==
    /\ orgPc = "scan"
    /\ LET parsed == parseAll(getAllMarkdownFiles(orgFiles))
       IN  /\ notes' = parsed
           /\ orgPc' = IF parsed = <<>> THEN "done" ELSE "backup"
    /\ UNCHANGED <<cfgVars, fsVars, runVars, histVars, lastRun, fnVars, orgTree,
                   orgOracle, orgInitial, orgAtStart, firstRun, orgRun, orgDryRun,
                   shouldBackup, allCategories, orgCategories, orgBatchIdx, noteIdx,
                   movedCount, skippedCount, newFolders>>

\* STEP 4 to STEP 6: the backup (cpSync may throw), the operator's go-ahead,
\* initGemini (which throws without an API key)
OrgBackup ==
    /\ orgPc = "backup"
    /\ \E copied \in (IF shouldBackup THEN BOOLEAN ELSE {TRUE}),
          proceed \in (IF orgDryRun THEN {TRUE} ELSE BOOLEAN), apiKey \in BOOLEAN :
         /\ backups' = IF shouldBackup /\ copied
                        THEN Append(backups, backupVault(orgFiles)) ELSE backups
         /\ orgPc' = IF ~copied THEN "failed"
                     ELSE IF ~proceed THEN "cancelled"
                     ELSE IF ~apiKey THEN "failed"
                     ELSE "categorize"
    /\ UNCHANGED <<cfgVars, fsVars, runVars, histVars, lastRun, fnVars, orgDirs, orgFiles,
                   orgOracle, orgInitial, orgAtStart, firstRun, orgRun, orgDryRun,
                   shouldBackup, notes, allCategories, orgCategories, orgBatchIdx,
                   noteIdx, movedCount, skippedCount, newFolders>>

\* STEP 7: one batch is categorized and merged
OrgCategorize ==
    /\ orgPc = "categorize"
    /\ LET b == batchAt(notes, orgBatchIdx)
           out == categorizeBatch(b, orgOracle)
       IN  /\ allCategories' = mergeCategories(allCategories, out.categories)
           /\ orgCategories' = foldCategories(orgCategories, out.categories, b)
    /\ IF orgBatchIdx + 1 < totalBatches(Len(notes))
       THEN orgBatchIdx' = orgBatchIdx + 1 /\ orgPc' = "categorize" /\ noteIdx' = noteIdx
       ELSE orgBatchIdx' = orgBatchIdx /\ orgPc' = "move" /\ noteIdx' = 1
    /\ UNCHANGED <<cfgVars, fsVars, runVars, histVars, lastRun, fnVars, orgTree,
                   orgOracle, orgInitial, orgAtStart, firstRun, orgRun, orgDryRun,
                   shouldBackup, notes, movedCount, skippedCount, newFolders>>

\* STEP 8: one note of the loop: the new folder, then moveToCategory
OrgMove ==
    /\ orgPc = "move"
    /\ LET note == notes[noteIdx]
           category == categoryOf(allCategories, note.id)
           categoryFolder == categoryFolderOf(category)
           isNewFolder == categoryFolder \notin orgDirs /\ category \notin newFolders
           makes == isNewFolder /\ ~orgDryRun
           moves == ~orgDryRun /\ note.dir # categoryFolder
       IN  \E outcome \in {"ok"} \cup (IF makes THEN {"mkdirThrows"} ELSE {})
                                 \cup (IF moves THEN {"renameThrows"} ELSE {}) :
             LET ds == IF makes /\ outcome # "mkdirThrows"
                       THEN MkdirP(orgDirs, categoryFolder) ELSE orgDirs
                 r == moveToCategory(note, category, orgDryRun, ds, orgFiles, outcome)
             IN  /\ newFolders' = IF isNewFolder THEN newFolders \cup {category}
                                  ELSE newFolders
                 /\ IF outcome = "mkdirThrows"
                    THEN /\ orgPc' = "failed"
                         /\ UNCHANGED <<orgDirs, orgFiles, movedCount, skippedCount, noteIdx>>
                    ELSE /\ orgDirs' = r.dirs
                         /\ orgFiles' = r.files
                         /\ IF r.threw
                            THEN /\ orgPc' = "failed"
                                 /\ UNCHANGED <<movedCount, skippedCount, noteIdx>>
                            ELSE /\ movedCount' = IF r.moved THEN movedCount + 1
                                                  ELSE movedCount
                                 /\ skippedCount' = IF r.moved THEN skippedCount
                                                    ELSE skippedCount + 1
                                 /\ IF noteIdx < Len(notes)
                                    THEN noteIdx' = noteIdx + 1 /\ orgPc' = "move"
                                    ELSE /\ noteIdx' = noteIdx
                                         /\ orgPc' = IF orgDryRun THEN "done"
                                                     ELSE "cleanup"
    /\ UNCHANGED <<cfgVars, fsVars, runVars, histVars, lastRun, fnVars, backups,
                   orgOracle, orgInitial, orgAtStart, firstRun, orgRun, orgDryRun,
                   shouldBackup, notes, allCategories, orgCategories, orgBatchIdx>>

\* Clean up empty directories
OrgCleanup ==
    /\ orgPc = "cleanup"
    /\ LET r == cleanupEmptyDirs(orgDirs, orgFiles)
       IN  /\ orgDirs' = r.dirs
           /\ orgFiles' = r.files
    /\ orgPc' = "done"
    /\ UNCHANGED <<cfgVars, fsVars, runVars, histVars, lastRun, fnVars, backups,
                   orgOracle, orgInitial, orgAtStart, firstRun, orgLocalsButPc>>

InitOrg ==
    /\ SyncInit
    /\ batchSizeSetting \in {0, 1}
    /\ maxTweetsPerRun = 0
    /\ stateFile = MissingFile(FALSE)
    /\ dirs = {}
    /\ orgFiles \in OrgTrees
    /\ orgDirs = DirsOf(orgFiles)
    /\ backups = <<>>
    /\ OrgLocalsFresh("idle", "none", FALSE, FALSE)
    /\ orgOracle \in OrgOracles(orgFiles)
    /\ orgInitial = orgFiles
    /\ orgAtStart = [dirs |-> orgDirs, files |-> orgFiles, backups |-> backups]
    /\ firstRun = NoFirstRun

NextOrg == OrgStart \/ OrgScan \/ OrgBackup \/ OrgCategorize \/ OrgMove \/ OrgCleanup

SpecOrg == InitOrg /\ [][NextOrg]_vars

\* ---------------------------------------------------------------- claims

Running == pc \in {"fetch", "load", "categorize", "write", "save"}

\* the positions of F whose item is not processed, and the k-th of them
NewPositions(F, P) == {i \in 1..Len(F) : F[i].id \notin P}
NthOf(S, k) == CHOOSE i \in S : Cardinality({j \in S : j < i}) = k - 1

\* C1: the diff returns exactly the items of F whose id is not in P, in F's
\* order (its k-th item is the k-th such item of F), and the empty list when
\* every id of F is in P.
C1_DiffExact ==
    diffCall.done =>
        LET F == diffCall.F
            P == diffCall.P
            out == diffCall.out
            new == NewPositions(F, P)
        IN  /\ Len(out) = Cardinality(new)
            /\ \A k \in 1..Len(out) : out[k] = F[NthOf(new, k)]
            /\ (IdsOf(F) \subseteq P => out = <<>>)

C1_Witness ==
    /\ diffCall.done
    /\ Len(diffCall.F) = 3
    /\ Len(diffCall.out) = 2
    /\ diffCall.out[1] # diffCall.out[2]
    /\ diffCall.F[2].id \in diffCall.P

\* C2: unless the state file is deleted, every id the state file holds before
\* a step is in it after the step: no save removes an id.
C2_AppendOnly ==
    [][stateFile'.kind # "missing" => IdsIn(stateFile) \subseteq IdsIn(stateFile')]_vars

\* a second run has saved the id it wrote next to the id the first run saved
C2_Witness ==
    /\ runs = 2
    /\ pc = "done"
    /\ writtenThisRun = {2}
    /\ IdsIn(stateFile) = {1, 2}
    /\ \E f \in files : f.id = 1

\* the ids written in this run that the state file does not hold
AtRisk == writtenThisRun \ IdsIn(stateFile)

\* C3: at every point of a run, the ids written in it and not yet in the state
\* file are ids of the batch in flight, so they are at most batchSize.
C3_OneBatchAtRisk ==
    Running => /\ AtRisk \subseteq IdsOf(batch)
               /\ Cardinality(AtRisk) <= batchSize

C3_Witness ==
    /\ pc = "save"
    /\ ~isDryRun
    /\ batchIdx = 1
    /\ AtRisk # {}
    /\ writtenThisRun \ AtRisk # {}

\* the ids whose write threw in this run and never succeeded in it
FailedOnly == failedThisRun \ writtenThisRun

\* an item whose write failed is new for a diff against the state file as it is
SeenAsNew ==
    \A i \in 1..Len(toProcess) :
        toProcess[i].id \in FailedOnly =>
            /\ toProcess[i].id \notin IdsIn(stateFile)
            /\ findNewLikes(<<toProcess[i]>>, loadLikesState(stateFile)) = <<toProcess[i]>>

\* C4: every id a step adds to the state file is the id of an item whose write
\* succeeded in this run, and an item whose write threw is not in the state
\* file, so that the diff of the next run returns it.
C4_OnlyWrittenIds ==
    [][/\ (IdsIn(stateFile') \ IdsIn(stateFile)) \subseteq writtenThisRun'
       /\ SeenAsNew']_vars

C4_Witness ==
    /\ pc = "done"
    /\ ~isDryRun
    /\ FailedOnly # {}
    /\ writtenThisRun # {}
    /\ writtenThisRun \subseteq IdsIn(stateFile)

\* the oracle's label for an item, read as the reply's text says
Assigned(o, id) == IF o.json = "object" /\ id \in DOMAIN o.obj THEN o.obj[id] ELSE Absent
LenOk(s) == Len(s) >= 2 /\ Len(s) <= 50

\* C5: the fallback label is assigned whenever the oracle's label is absent,
\* not a string, or outside 2..50 characters after its surrounding quotes are
\* trimmed; every label of the returned map is the fallback label or has 2 to
\* 50 characters.
C5_LabelsValidated ==
    catCall.done =>
        \A id \in IdsOf(catCall.tweets) :
            LET v == Assigned(catCall.oracle, id)
                label == catCall.out.categories[id]
            IN  /\ (v.kind # "string" \/ ~LenOk(StripQuotes(v.s)))
                       => label = uncategorizedFolder
                /\ label = uncategorizedFolder \/ LenOk(label)

\* C6: an item to which the reply assigns a label of 1 or of 51 characters gets
\* the fallback label.
C6_BoundaryLabels ==
    catCall.done =>
        \A id \in IdsOf(catCall.tweets) :
            LET v == Assigned(catCall.oracle, id)
            IN  (v.kind = "string" /\ Len(v.s) \in {1, 51})
                    => catCall.out.categories[id] = uncategorizedFolder

\* a reply, parsed, gives a 51-character label to one item and a good one to another
C6_Witness ==
    /\ catCall.done
    /\ ~catCall.oracle.throws
    /\ ~jsonParseThrows(stripFence(catCall.oracle))
    /\ \E id \in IdsOf(catCall.tweets) :
         /\ Len(Assigned(catCall.oracle, id).s) = 51
         /\ catCall.out.categories[id] = uncategorizedFolder
    /\ \E id \in IdsOf(catCall.tweets) : catCall.out.categories[id] # uncategorizedFolder

\* the reply is text that is no JSON, once a fence it starts with is taken off
NotJson(o) == ~o.throws /\ (o.json = "invalid" \/ (~o.fenceOpen /\ o.fenceClose))

\* C7: when the oracle call throws or its reply is no valid JSON, categorizeBatch
\* does not raise and gives every item of the batch the fallback label.
C7_FailSoft ==
    (catCall.done /\ (catCall.oracle.throws \/ NotJson(catCall.oracle))) =>
        /\ ~catCall.out.raised
        /\ \A i \in 1..Len(catCall.tweets) :
             /\ catCall.tweets[i].id \in DOMAIN catCall.out.categories
             /\ catCall.out.categories[catCall.tweets[i].id] = uncategorizedFolder

C7_Witness ==
    /\ catCall.done
    /\ NotJson(catCall.oracle)
    /\ Len(catCall.tweets) = 2
    /\ ~catCall.out.raised

\* C8: whatever the oracle does, the returned map has exactly the ids of the
\* batch as keys, and a label for each.
C8_EveryItemLabelled ==
    catCall.done =>
        /\ ~catCall.out.raised
        /\ DOMAIN catCall.out.categories = IdsOf(catCall.tweets)
        /\ \A id \in IdsOf(catCall.tweets) : Len(catCall.out.categories[id]) >= 0

\* a partial reply: a good label for one item, none for the other
C8_Witness ==
    /\ catCall.done
    /\ Len(catCall.tweets) = 2
    /\ \E id \in IdsOf(catCall.tweets) : Assigned(catCall.oracle, id) = Absent
    /\ \E id \in IdsOf(catCall.tweets) : catCall.out.categories[id] # uncategorizedFolder

\* the batches of a log, one after the other
RECURSIVE Flatten(_)
Flatten(log) == IF log = <<>> THEN <<>> ELSE Head(log) \o Flatten(Tail(log))

\* C9: a run that completes over n items to process has sent the least number
\* k of requests with k * batchSize >= n, one per batch; the batches are not
\* empty, have at most batchSize items and are, one after the other, the list.
C9_OneRequestPerBatch ==
    pc = "done" =>
        LET n == Len(toProcess)
            k == Len(oracleLog)
        IN  /\ k * batchSize >= n
            /\ (k > 0 => (k - 1) * batchSize < n)
            /\ \A i \in 1..k : Len(oracleLog[i]) >= 1 /\ Len(oracleLog[i]) <= batchSize
            /\ Flatten(oracleLog) = toProcess

C9_Witness ==
    /\ pc = "done"
    /\ Len(oracleLog) = 2
    /\ Len(toProcess) = 2

\* C10: no step of a dry run changes the state file, a folder or a document.
C10_DryRunNoMutation ==
    [][(isDryRun /\ Running) => UNCHANGED <<stateFile, dirs, files>>]_vars

\* a dry run has gone through two batches to its end
C10_Witness ==
    /\ isDryRun
    /\ pc = "done"
    /\ Len(oracleLog) = 2
    /\ Len(results) = 1

\* the ids in the state file when this run started
startIds == IdsIn(atStart.stateFile)

\* the ids of the items sent to the oracle in this run
SentIds == UNION {IdsOf(oracleLog[i]) : i \in 1..Len(oracleLog)}

\* this run has fetched the list the run before it fetched, and that run ended
\* with every fetched item written and saved
SameFetchAgain ==
    /\ lastRun.clean
    /\ ~lastRun.stateDeleted
    /\ pc \in {"load", "categorize", "write", "save", "done"}
    /\ likes = lastRun.likes

\* C11: no item whose id is in the state file when a run starts is sent to the
\* oracle or written by that run; a run that fetches the list of a run before it
\* that ended with no write failure and no cut by maxTweetsPerRun finds no new
\* item, sends nothing to the oracle, writes nothing and saves no state.
C11_NoReprocessing ==
    /\ SentIds \cap startIds = {}
    /\ (writtenThisRun \cup failedThisRun) \cap startIds = {}
    /\ SameFetchAgain =>
          /\ pc \in {"load", "done"}
          /\ newLikes = <<>>
          /\ oracleLog = <<>>
          /\ writtenThisRun = {}
          /\ savesThisRun = 0
          /\ <<dirs, files>> = <<atStart.dirs, atStart.files>>

\* a second run ends after fetching the two items the first run wrote and saved
C11_Witness ==
    /\ SameFetchAgain
    /\ pc = "done"
    /\ runs = 2
    /\ Len(likes) = 2
    /\ IdsOf(likes) \subseteq startIds
    /\ Cardinality(files) >= 1

\* the run stopped before its third step: nothing fetched, or nothing new
EarlyExit ==
    /\ pc = "done"
    /\ likes = <<>> \/ IdsOf(likes) \subseteq startIds

\* C12: a run whose fetch returns no item, or only items whose id is in the
\* state file, ends with no oracle request, no document and no folder written
\* and no save of the state file.
C12_EarlyExitNoOp ==
    EarlyExit =>
        /\ oracleLog = <<>>
        /\ writtenThisRun = {} /\ failedThisRun = {}
        /\ savesThisRun = 0
        /\ dirs = atStart.dirs
        /\ files = atStart.files

\* a run has ended early on a fetched item that the state file holds
C12_Witness ==
    /\ EarlyExit
    /\ likes # <<>>
    /\ ~isDryRun
    /\ stateFile = atStart.stateFile
    /\ stateFile.kind = "valid"

\* C13: a save followed by a load of the same kind returns the set that was
\* saved, for every set of string ids, the empty set too.
C13_SaveLoadRoundTrip ==
    storeCall.op = "saveload" =>
        /\ ~storeCall.out.raised
        /\ storeCall.out.ids = storeCall.ids

\* two ids were saved and read back, one with a quote and one with a backslash
C13_Witness ==
    /\ storeCall.op = "saveload"
    /\ Cardinality(storeCall.ids) = 2
    /\ \E id \in storeCall.ids : DQ \in Range(id)
    /\ \E id \in storeCall.ids : BS \in Range(id)
    /\ storeCall.out.ids = storeCall.ids

\* C14: a load never raises, and a state file that is missing, unreadable, no
\* JSON or JSON without a processedIds array gives the empty set.
C14_LoadFailSoft ==
    storeCall.op = "load" =>
        /\ ~storeCall.out.raised
        /\ storeCall.file.kind # "valid" => storeCall.out.ids = {}

\* a document, wherever it lies
Documents(fs) == {f \in fs : f.kind # "hidden"}
DocsOf(fs) == {[name |-> f.name, id |-> f.id, kind |-> f.kind] : f \in Documents(fs)}

\* C15: the organizer, run once or twice, never changes the number of documents
\* of the subtree, whatever the tree (files of the same name in different folders
\* too): no document is created and none is destroyed.
C15_DocumentsKept ==
    /\ Cardinality(Documents(orgFiles)) = Cardinality(Documents(orgInitial))
    /\ DocsOf(orgFiles) = DocsOf(orgInitial)

\* C16: when the organizer has run twice with the same label for each id, the
\* second run's count of notes already in place is the first run's count of
\* notes moved.
C16_SecondRunInPlace ==
    (/\ orgRun = "second" /\ orgPc = "done" /\ ~orgDryRun
     /\ firstRun.ended /\ ~firstRun.dry)
        => skippedCount = firstRun.moved

\* the notes of a run that lie outside the folder of their label, and the labels
\* whose folder is not among the folders ds
ToMove == {i \in 1..Len(notes) :
              notes[i].dir # categoryFolderOf(categoryOf(allCategories, notes[i].id))}
MissingFolders(ds) ==
    {categoryOf(allCategories, notes[i].id) : i \in
        {j \in 1..Len(notes) :
            categoryFolderOf(categoryOf(allCategories, notes[j].id)) \notin ds}}

\* C17: a dry run of the organizer makes no backup and leaves every folder and
\* every file of the subtree as it is; it ends with the count of the notes it
\* would move, the count of those in place and the set of the folders it would
\* create.
C17_OrgDryRunNoMutation ==
    (orgDryRun /\ orgRun # "none") =>
        /\ orgDirs = orgAtStart.dirs
        /\ orgFiles = orgAtStart.files
        /\ backups = orgAtStart.backups
        /\ (orgPc = "done" /\ notes # <<>>) =>
              /\ movedCount = Cardinality(ToMove)
              /\ skippedCount = Len(notes) - Cardinality(ToMove)
              /\ newFolders = MissingFolders(orgDirs)

\* a dry run has ended with a note to move into a folder to create, and one in place
C17_Witness ==
    /\ orgDryRun
    /\ orgPc = "done"
    /\ movedCount = 1
    /\ skippedCount = 1
    /\ newFolders # {}

\* the path of a document with the fallback label
FallbackPath(tweet) == <<bookmarksFolder, uncategorizedFolder, tweet.name>>

\* the batch whose oracle call threw has gone through the loop's round
ThrownBatchDone ==
    /\ ~isDryRun
    /\ pc \in {"categorize", "done"}
    /\ batch # <<>>
    /\ oracle.throws
    /\ ~lastRun.stateDeleted

C19_WrittenUnderLikesFolder ==
    \A f \in files : f.path[1] = likesFolder /\ f.path[1] # bookmarksFolder

\* C20: with --dry-run and --full together the fetch runs the command that
\* fetches everything: --all, no --max-pages and no -n.
C20_DryRunFullFetchesAll ==
    (fetchCall.done /\ fetchCall.dryRun /\ fetchCall.fullSync) =>
        fetchCall.command = BirdCommand(TRUE, 0, 0)

\* a run of the organizer that was no dry run has gone through its last step
OrgRunDone == orgPc = "done" /\ ~orgDryRun /\ notes # <<>>

\* the folder and the file of a note after the run
LabelFolder(note) == categoryFolderOf(categoryOf(allCategories, note.id))
Lies(note, dir) ==
    \E f \in orgFiles : f.kind = "note" /\ f.id = note.id /\ f.name = note.name /\ f.dir = dir

\* C21: a failure of the file system while one file is moved does not end the
\* organizer's run: the run never fails once the loop over the notes has begun.
C21_MoveFailureConfined == orgPc = "failed" => noteIdx = 0

\* C22: after a run of the organizer that was no dry run, no folder below the
\* target folder, at whatever depth, is empty.
C22_NoEmptyFolderLeft ==
    OrgRunDone =>
        \A d \in orgDirs \ {<<>>} :
            \/ \E f \in orgFiles : f.dir = d
            \/ \E e \in orgDirs : Below(e, d)

\* C23: after a run of the organizer that was no dry run, every parsed note
\* lies, under its own name, in the folder of its label, and the count of
\* the notes moved plus the count of those in place is the number of parsed notes.
C23_EveryNoteInItsFolder ==
    OrgRunDone =>
        /\ \A i \in 1..Len(notes) : Lies(notes[i], LabelFolder(notes[i]))
        /\ movedCount + skippedCount = Len(notes)

\* C26: in a run with a backup, as long as the backup is not made the subtree is
\* as it was when the run started, and the backup made holds the subtree as it
\* was when the run started.
C26_BackupBeforeMutation ==
    (orgRun # "none" /\ shouldBackup) =>
        IF backups = orgAtStart.backups
        THEN orgDirs = orgAtStart.dirs /\ orgFiles = orgAtStart.files
        ELSE backups = Append(orgAtStart.backups, orgAtStart.files)

\* a run with a backup has moved a note and removed a folder
C26_Witness ==
    /\ OrgRunDone
    /\ shouldBackup
    /\ movedCount > 0
    /\ backups # orgAtStart.backups
    /\ orgFiles # orgAtStart.files
    /\ orgDirs # orgAtStart.dirs

\* C27: the folder name of every label that passed the validation is not empty,
\* and every note the organizer moved lies in a folder strictly below the target
\* folder.
C27_BelowRoot ==
    /\ \A id \in DOMAIN allCategories :
          organizeSanitizeFilename(allCategories[id]) # <<>>
    /\ \A f \in orgFiles : (f.kind = "note" /\ f \notin orgAtStart.files) => f.dir # <<>>

\* C28: a file of the subtree that does not parse stays where it is, as it
\* is, through every run of the organizer.
C28_UnparsedUntouched ==
    \A f \in orgInitial : f.kind = "unparsed" => f \in orgFiles

ItemsIn(value) ==
    IF value.json = "array" \/ (value.json = "object" /\ value.hasTweets) THEN value.items
    ELSE <<>>

\* C25: a fetch runs the process once; when the process fails and its stdout
\* parses as JSON the fetch returns the items of that output and does not throw;
\* when the process fails and its stdout is empty or no JSON the fetch throws
\* the fetch error with the message of the process's error.
C25_FetchRecovery ==
    fetchCall.done =>
        /\ fetchCall.out.execs = 1
        /\ (fetchCall.process.exit = "fail" /\ fetchCall.process.stdout.text = "json") =>
              /\ ~fetchCall.out.raised
              /\ fetchCall.out.items = ItemsIn(fetchCall.process.stdout.value)
        /\ (fetchCall.process.exit = "fail" /\ fetchCall.process.stdout.text # "json") =>
              /\ fetchCall.out.raised
              /\ fetchCall.out.error =
                    FetchError(fetchCall.kind, "Command failed")

Least(a, b) == IF a < b THEN a ELSE b

\* a run with a cap has gone to its summary, not as a dry run, with every write
\* done, and the state file has not been deleted since
CappedRunDone ==
    /\ pc = "done"
    /\ ~isDryRun
    /\ maxTweetsPerRun > 0
    /\ failedThisRun = {}
    /\ ~lastRun.stateDeleted

\* the run at hand goes on a streak of such runs that fetched the same list; the
\* number of runs of the streak, this one counted, and the diff the streak began with
InStreak == lastRun.streak > 0 /\ lastRun.likes = likes
StreakRuns == IF InStreak THEN lastRun.streak + 1 ELSE 1
StreakNew == IF InStreak THEN lastRun.firstNew ELSE newLikes

\* C30: with a cap M > 0 a run processes the first min(M, n) of its n new
\* items, in the order of the fetch; and after k runs, one after the other, that
\* fetched the same list with no write failing, the first min(k * M, n) of the n
\* new items of the first run have their ids in the state file, so that from run
\* ceil(n / M) on a diff against the state file is empty.
C30_CapTruncatesAndConverges ==
    /\ (maxTweetsPerRun > 0 /\ pc \in {"categorize", "write", "save"}) =>
          toProcess = SubSeq(newLikes, 1, Least(maxTweetsPerRun, Len(newLikes)))
    /\ CappedRunDone =>
          /\ toProcess = SubSeq(newLikes, 1, Least(maxTweetsPerRun, Len(newLikes)))
          /\ Flatten(oracleLog) = toProcess
          /\ writtenThisRun = IdsOf(toProcess)
          /\ IdsOf(SubSeq(StreakNew, 1,
                          Least(StreakRuns * maxTweetsPerRun, Len(StreakNew))))
                \subseteq IdsIn(stateFile)
          /\ StreakRuns * maxTweetsPerRun >= Len(StreakNew) =>
                findNewLikes(likes, IdsIn(stateFile)) = <<>>

\* the second of two runs with the cap 1 that fetched the same two new items:
\* each run has processed one, and both ids are in the state file
C30_Witness ==
    /\ CappedRunDone
    /\ InStreak
    /\ Len(StreakNew) = 2
    /\ maxTweetsPerRun = 1
    /\ Len(toProcess) = 1
    /\ Len(newLikes) = 1
    /\ IdsOf(StreakNew) \subseteq IdsIn(stateFile)

====
